---- MODULE Spec2Model ----
(***************************************************************************)
(* State-machine model of the browser scripts of the Fake News Detection   *)
(* front end: the form/interaction controller (frontend/js/main.js) and    *)
(* the dashboard controller (frontend/js/dashboard.js).                    *)
(*                                                                         *)
(* Every `await` of the source is a suspension point: the code before it   *)
(* and the code after it are separate actions, and any other event of the  *)
(* page may be handled in between.  The outcomes of a fetch (resolve or    *)
(* reject) and of response.json() (a payload or a rejection) are inputs    *)
(* chosen by the environment.                                              *)
(***************************************************************************)
EXTENDS Integers, Sequences, FiniteSets, TLC

(***************************************************************************)
(* Bounds of the model                                                     *)
(***************************************************************************)
\* longest text typed into the title or text field
MaxFieldLen == 1
\* number of submit events dispatched on the detection form
MaxSubmits == 2
\* longest history list returned to the main page
MaxMainHistory == 1
\* number of refresh cycles of the dashboard, the initial load included
MaxCycles == 2
\* number of predictions the backend records while the dashboard is open
MaxServerHistory == 2
\* longest history list rendered into the two tables
MaxTableHistory == 11
\* longest prediction list aggregated into the charts
MaxAggregated == 2

(***************************************************************************)
(* JavaScript values                                                       *)
(***************************************************************************)
\* the value `undefined` (a missing property of a JSON payload)
Undefined == [undefined |-> TRUE]

\* characters typed into a field: a blank and a letter
Chars == {" ", "a"}

\* the values one keystroke turns s into: a character typed at the end, or
\* the last character deleted
keystroke(s) ==
    {Append(s, c) : c \in IF Len(s) < MaxFieldLen THEN Chars ELSE {}}
        \cup (IF Len(s) > 0 THEN {SubSeq(s, 1, Len(s) - 1)} ELSE {})

\* a JavaScript string is truthy iff it is not the empty string
Truthy(s) == Len(s) > 0

\* empty, or white space only
IsBlank(s) == \A i \in 1..Len(s) : s[i] = " "

(***************************************************************************)
(* State                                                                   *)
(***************************************************************************)
VARIABLES
    \* ---- main page (main.js) ----
    titleValue,          \* document.getElementById('title').value
    textValue,           \* document.getElementById('text').value
    appState,            \* appState: isAnalyzing, lastResult, history
    submitBtn,           \* #submitBtn: disabled, innerHTML
    loadingSpinner,      \* #loadingSpinner style.display
    resultsSection,      \* #resultsSection: style.display, innerHTML
    historyTableBody,    \* #historyTableBody rows
    mainNotifications,   \* toasts appended to document.body, in order
    submitPc,            \* position of the handleFormSubmit invocation in flight
    data,                \* its local `data`: what response.json() resolved to
    initHistoryPc,       \* position of initializeApp's loadHistory()
    predictCalls,        \* number of POSTs sent to API_ENDPOINTS.predict
    historyCalls,        \* number of GETs sent to API_ENDPOINTS.history
    submitEvents,        \* number of submit events dispatched so far
    \* ---- dashboard page (dashboard.js) ----
    dashboardState,      \* dashboardState: predictions, statistics, charts
    kpis,                \* textContent of the four KPI elements
    recentPredictions,   \* #recentPredictions rows
    avgConfidence,       \* #avgConfidence textContent
    dashNotifications,   \* toasts appended to document.body, in order
    dashboardLoader,     \* #dashboardLoader style.display
    cycles,              \* the refresh cycles: kind, position, response body
    serverHistory,       \* the history the backend holds, newest first
    now,                 \* the local clock
    \* ---- widgets of either page ----
    notifications,       \* the toasts created by showNotification, in order:
                         \* whether in document.body, animation, pending timer
    counter              \* one .counter element and the closure initCounters
                         \* makes for it (animations.js)

mainVars == <<titleValue, textValue, appState, submitBtn, loadingSpinner,
              resultsSection, historyTableBody, mainNotifications, submitPc, data,
              initHistoryPc, predictCalls, historyCalls, submitEvents>>

dashVars == <<dashboardState, kpis, recentPredictions, avgConfidence,
              dashNotifications, dashboardLoader, cycles, serverHistory, now>>

widgetVars == <<notifications, counter>>

vars == <<mainVars, dashVars, widgetVars>>

(***************************************************************************)
(* Payloads of the REST endpoints                                          *)
(***************************************************************************)
\* obj[name] as JavaScript reads it: undefined when the property is missing
prop(obj, name) == IF name \in DOMAIN obj THEN obj[name] ELSE Undefined

\* the value `null`
Null == [null |-> TRUE]

\* an array value (so that a property holding an array can also be undefined)
Arr(list) == [array |-> list]

\* result categories of a PredictionRecord
FAKE == "FAKE NEWS"
REAL == "REAL NEWS"
SUSPICIOUS == "SUSPICIOUS"

\* prediction objects of POST /api/predict
PredFake == [icon |-> "!", result |-> FAKE, color |-> "#f72585",
             confidence_percentage |-> "92.0%", confidence_level |-> "High",
             message |-> "This looks fake"]
PredReal == [icon |-> "v", result |-> REAL, color |-> "#4cc9f0",
             confidence_percentage |-> "61.5%", confidence_level |-> "Medium",
             message |-> "This looks real"]
Predictions == {PredFake, PredReal}

Previews == {[title |-> "t...", text |-> "x..."]}

\* what response.json() of POST /api/predict can resolve to.  An `error` of ""
\* stands for a missing or empty error string (both are falsy).
PredictPayloads ==
    {[success |-> TRUE, prediction |-> p, preview |-> v] :
        p \in Predictions \cup {Undefined}, v \in Previews \cup {Undefined}}
    \cup {[success |-> FALSE, error |-> e] : e \in {"Model not loaded", ""}}
    \cup {Null}

\* a timestamp: local calendar day and hour of the day
Timestamp(d, h) == [day |-> d, hour |-> h]

\* PredictionRecords returned to the main page.  confidence is in units of 1/10000.
MainRecords == {[timestamp |-> Timestamp(0, 9), title |-> "t1", result |-> FAKE,
                 confidence |-> 9200]}

\* what response.json() of GET /api/history can resolve to on the main page
MainHistoryPayloads ==
    {[history |-> Arr(h)] : h \in UNION {[1..k -> MainRecords] : k \in 0..MaxMainHistory}}
    \cup {[history |-> Undefined]}

(***************************************************************************)
(* main.js: helpers                                                        *)
(***************************************************************************)
\* showNotification: append a toast to document.body
showNotification(log, message, type) ==
    Append(log, [message |-> message, type |-> type])

\* validateInput's test (line 136); TRUE iff the input is accepted
validateInput(title, text) == ~(~Truthy(title) /\ ~Truthy(text))

\* validateForm: submitBtn.disabled = !title && !text
validateForm(btn, title, text) ==
    [btn EXCEPT !.disabled = ~Truthy(title) /\ ~Truthy(text)]

\* setLoadingState with the reset lost: the flag is only ever raised
setLoadingState_NeverReset(st, isLoading) ==
    [st EXCEPT !.isAnalyzing = st.isAnalyzing \/ isLoading]

\* setLoadingState: the flag
setLoadingState(st, isLoading) == [st EXCEPT !.isAnalyzing = isLoading]

\* setLoadingState: the submit control
setLoadingBtn(isLoading) ==
    [disabled |-> isLoading,
     html |-> IF isLoading THEN "Analyzing..." ELSE "Detect Fake News"]

\* setLoadingState: the spinner
setLoadingSpinner(isLoading) == IF isLoading THEN "block" ELSE "none"

\* handleFormSubmit without its guard against a submission in flight
alreadyAnalyzing_Never(st) == FALSE

\* the guard of handleFormSubmit against a submission in flight (line 93)
alreadyAnalyzing(st) == st.isAnalyzing

\* Date.prototype.toLocaleString: local date and time
toLocaleString(ts) == <<ts.day, ts.hour>>

\* (x * 100).toFixed(1) of a confidence in 1/10000: tenths of a percent, rounded
toFixed1(confidence) == (confidence + 5) \div 10

statusClass(result) ==
    IF result = FAKE THEN "status-fake"
    ELSE IF result = REAL THEN "status-real" ELSE "status-suspicious"

\* one <tr> of a history table
renderRow(item) ==
    [time |-> toLocaleString(item.timestamp), title |-> item.title,
     badge |-> statusClass(item.result), result |-> item.result,
     confidence |-> toFixed1(item.confidence)]

RECURSIVE renderRows(_)
renderRows(items) ==
    IF items = <<>> THEN <<>>
    ELSE <<renderRow(Head(items))>> \o renderRows(Tail(items))

\* Array.prototype.slice(0, n)
slice(list, n) == SubSeq(list, 1, IF Len(list) < n THEN Len(list) ELSE n)

\* the placeholder row of an empty table
EmptyStateRow == [emptyState |-> TRUE, text |-> "No predictions yet. Start analyzing!"]

\* number of rows shown on the list page (history.slice(0, 5))
ListPageRows == 5

\* updateHistoryTable without the slice: every entry gets a row
updateHistoryTable_NoSlice(history) ==
    IF Len(history) = 0 THEN <<EmptyStateRow>> ELSE renderRows(history)

\* updateHistoryTable: the new rows of #historyTableBody
updateHistoryTable(history) ==
    IF Len(history) = 0 THEN <<EmptyStateRow>>
    ELSE renderRows(slice(history, ListPageRows))

\* the markup of an element not yet written to
EmptyHtml == [empty |-> TRUE]

\* the result card built by displayResult
ResultCard(prediction, preview) ==
    [icon |-> prediction.icon, title |-> prediction.result,
     titleColor |-> prediction.color,
     fillWidth |-> prediction.confidence_percentage,
     fillColor |-> prediction.color,
     confidenceLabel |-> <<prediction.confidence_percentage, prediction.confidence_level>>,
     message |-> prediction.message,
     previewTitle |-> preview.title, previewText |-> preview.text]

\* displayResult throws a TypeError when it reads a property of undefined
displayResultThrows(prediction, preview) ==
    prediction = Undefined \/ preview = Undefined

\* displayResult that shows the section but never writes the card
displayResult_NoCard(rs, prediction, preview) == [rs EXCEPT !.display = "block"]

\* displayResult: style.display is set before the template is evaluated
displayResult(rs, prediction, preview) ==
    IF displayResultThrows(prediction, preview)
    THEN [rs EXCEPT !.display = "block"]
    ELSE [display |-> "block", html |-> ResultCard(prediction, preview)]

\* handleFormSubmit taking every payload for a success
isSuccess_Always(d) == TRUE

\* the test `if (data.success)` of handleFormSubmit (line 118)
isSuccess(d) == d.success

\* `data.error || 'Analysis failed'`
errorMessage(d) ==
    IF "error" \in DOMAIN d /\ d.error # "" THEN d.error ELSE "Analysis failed"

\* loadHistory after response.json() resolved: appState.history = data.history
loadHistoryState(st, d) == [st EXCEPT !.history = d.history]

\* loadHistory after response.json() resolved: updateHistoryTable(data.history);
\* reading .length of undefined throws, which loadHistory's catch swallows
loadHistoryTable(rows, d) ==
    IF d.history = Undefined THEN rows
    ELSE updateHistoryTable(d.history.array)

(***************************************************************************)
(* main.js: the page after DOMContentLoaded.  initializeApp has run up to  *)
(* its awaits: loadHistory() has issued its GET.  The markup of the page   *)
(* is not part of the scripts, so the submit control starts either way.    *)
(***************************************************************************)
\* the duration of a counter animation without a usable data-duration, in ms
DefaultDuration == 2000

\* no toast was created yet; the page has no counter that is observed
widgetsIdle ==
    /\ notifications = <<>>
    /\ counter = [target |-> 0, duration |-> DefaultDuration, observed |-> FALSE,
                  started |-> 0, frames |-> 0, scheduled |-> 0, textContent |-> 0]

mainPageLoaded ==
    /\ titleValue = <<>>
    /\ textValue = <<>>
    /\ appState = [isAnalyzing |-> FALSE, lastResult |-> Null, history |-> Arr(<<>>)]
    /\ submitBtn \in {[disabled |-> d, html |-> "Detect Fake News"] : d \in BOOLEAN}
    /\ loadingSpinner = "none"
    /\ resultsSection = [display |-> "none", html |-> EmptyHtml]
    /\ historyTableBody = <<>>
    /\ mainNotifications = <<>>
    /\ submitPc = "idle"
    /\ data = Undefined
    /\ initHistoryPc = "fetch"
    /\ predictCalls = 0
    /\ historyCalls = 1
    /\ submitEvents = 0

(***************************************************************************)
(* main.js: event handlers                                                 *)
(***************************************************************************)
\* an input event on #title: the new value, then validateForm
inputTitle ==
    \E v \in keystroke(titleValue) :
        /\ titleValue' = v
        /\ submitBtn' = validateForm(submitBtn, v, textValue)
        /\ UNCHANGED <<textValue, appState, loadingSpinner, resultsSection,
                       historyTableBody, mainNotifications, submitPc, initHistoryPc,
                       predictCalls, historyCalls, submitEvents, data,
                       dashVars, widgetVars>>

\* an input event on #text: the new value, then validateForm
inputText ==
    \E v \in keystroke(textValue) :
        /\ textValue' = v
        /\ submitBtn' = validateForm(submitBtn, titleValue, v)
        /\ UNCHANGED <<titleValue, appState, loadingSpinner, resultsSection,
                       historyTableBody, mainNotifications, submitPc, initHistoryPc,
                       predictCalls, historyCalls, submitEvents, data,
                       dashVars, widgetVars>>

\* clearForm: a click on #clearBtn
clearForm ==
    /\ titleValue' = <<>>
    /\ textValue' = <<>>
    /\ resultsSection' = [resultsSection EXCEPT !.display = "none"]
    /\ submitBtn' = validateForm(submitBtn, <<>>, <<>>)
    /\ UNCHANGED <<appState, loadingSpinner, historyTableBody, mainNotifications,
                   submitPc, initHistoryPc, predictCalls, historyCalls, submitEvents, data,
                       dashVars, widgetVars>>

\* the catch branch of handleFormSubmit followed by its finally, from state st
catchFinally(st) ==
    /\ mainNotifications' =
           showNotification(mainNotifications, "Network error. Please try again.", "error")
    /\ appState' = setLoadingState(st, FALSE)
    /\ submitBtn' = setLoadingBtn(FALSE)
    /\ loadingSpinner' = setLoadingSpinner(FALSE)
    /\ submitPc' = "idle"

\* handleFormSubmit after `await loadHistory()`: the success toast and the finally
analysisComplete(st) ==
    /\ mainNotifications' =
           showNotification(mainNotifications, "Analysis complete!", "success")
    /\ appState' = setLoadingState(st, FALSE)
    /\ submitBtn' = setLoadingBtn(FALSE)
    /\ loadingSpinner' = setLoadingSpinner(FALSE)
    /\ submitPc' = "idle"

\* handleFormSubmit up to `await fetch(API_ENDPOINTS.predict, ...)`
handleFormSubmit ==
    /\ submitEvents < MaxSubmits
    /\ submitEvents' = submitEvents + 1
    /\ IF alreadyAnalyzing(appState)
       THEN /\ mainNotifications' =
                   showNotification(mainNotifications, "Already analyzing...", "warning")
            /\ UNCHANGED <<appState, submitBtn, loadingSpinner, submitPc, predictCalls,
                           data>>
       ELSE IF ~validateInput(titleValue, textValue)
       THEN /\ mainNotifications' =
                   showNotification(mainNotifications,
                                    "Please enter a title or text to analyze", "warning")
            /\ UNCHANGED <<appState, submitBtn, loadingSpinner, submitPc, predictCalls,
                           data>>
       ELSE /\ appState' = setLoadingState(appState, TRUE)
            /\ submitBtn' = setLoadingBtn(TRUE)
            /\ loadingSpinner' = setLoadingSpinner(TRUE)
            /\ predictCalls' = predictCalls + 1
            /\ submitPc' = "fetchPredict"
            /\ data' = Undefined
            /\ UNCHANGED mainNotifications
    /\ UNCHANGED <<titleValue, textValue, resultsSection, historyTableBody,
                   initHistoryPc, historyCalls,
                       dashVars, widgetVars>>

\* the POST resolves with a response: response.json() is awaited
predictFetchResolve ==
    /\ submitPc = "fetchPredict"
    /\ submitPc' = "jsonPredict"
    /\ UNCHANGED <<titleValue, textValue, appState, submitBtn, loadingSpinner,
                   resultsSection, historyTableBody, mainNotifications, initHistoryPc,
                   predictCalls, historyCalls, submitEvents, data,
                       dashVars, widgetVars>>

\* the POST rejects (network failure)
predictFetchReject ==
    /\ submitPc = "fetchPredict"
    /\ catchFinally(appState)
    /\ UNCHANGED <<titleValue, textValue, resultsSection, historyTableBody,
                   initHistoryPc, predictCalls, historyCalls, submitEvents, data,
                       dashVars, widgetVars>>

\* response.json() rejects (the body is not JSON)
predictJsonReject ==
    /\ submitPc = "jsonPredict"
    /\ catchFinally(appState)
    /\ UNCHANGED <<titleValue, textValue, resultsSection, historyTableBody,
                   initHistoryPc, predictCalls, historyCalls, submitEvents, data,
                       dashVars, widgetVars>>

\* response.json() resolves with d: lines 116-125, up to `await loadHistory()`
predictJsonResolve ==
    \E d \in PredictPayloads :
        /\ submitPc = "jsonPredict"
        /\ data' = d
        /\ IF d = Null
           THEN \* data.success throws a TypeError
                /\ catchFinally(appState)
                /\ UNCHANGED <<resultsSection, historyCalls>>
           ELSE IF isSuccess(d)
           THEN /\ resultsSection' =
                       displayResult(resultsSection, prop(d, "prediction"), prop(d, "preview"))
                /\ IF displayResultThrows(prop(d, "prediction"), prop(d, "preview"))
                   THEN /\ catchFinally([appState EXCEPT
                                            !.lastResult = prop(d, "prediction")])
                        /\ UNCHANGED historyCalls
                   ELSE /\ appState' = [appState EXCEPT !.lastResult = d.prediction]
                        /\ historyCalls' = historyCalls + 1
                        /\ submitPc' = "fetchHistory"
                        /\ UNCHANGED <<submitBtn, loadingSpinner, mainNotifications>>
           ELSE /\ mainNotifications' =
                       showNotification(mainNotifications, errorMessage(d), "error")
                /\ appState' = setLoadingState(appState, FALSE)
                /\ submitBtn' = setLoadingBtn(FALSE)
                /\ loadingSpinner' = setLoadingSpinner(FALSE)
                /\ submitPc' = "idle"
                /\ UNCHANGED <<resultsSection, historyCalls>>
        /\ UNCHANGED <<titleValue, textValue, historyTableBody, initHistoryPc,
                       predictCalls, submitEvents,
                       dashVars, widgetVars>>

\* the GET issued by handleFormSubmit's loadHistory() resolves
submitHistoryFetchResolve ==
    /\ submitPc = "fetchHistory"
    /\ submitPc' = "jsonHistory"
    /\ UNCHANGED <<titleValue, textValue, appState, submitBtn, loadingSpinner,
                   resultsSection, historyTableBody, mainNotifications, initHistoryPc,
                   predictCalls, historyCalls, submitEvents, data,
                       dashVars, widgetVars>>

\* that GET rejects: loadHistory's catch swallows it and handleFormSubmit goes on
submitHistoryFetchReject ==
    /\ submitPc = "fetchHistory"
    /\ analysisComplete(appState)
    /\ UNCHANGED <<titleValue, textValue, resultsSection, historyTableBody,
                   initHistoryPc, predictCalls, historyCalls, submitEvents, data,
                       dashVars, widgetVars>>

\* its response.json() rejects: swallowed likewise
submitHistoryJsonReject ==
    /\ submitPc = "jsonHistory"
    /\ analysisComplete(appState)
    /\ UNCHANGED <<titleValue, textValue, resultsSection, historyTableBody,
                   initHistoryPc, predictCalls, historyCalls, submitEvents, data,
                       dashVars, widgetVars>>

\* its response.json() resolves: lines 209-210, then lines 122 and 130
submitHistoryJsonResolve ==
    \E d \in MainHistoryPayloads :
        /\ submitPc = "jsonHistory"
        /\ historyTableBody' = loadHistoryTable(historyTableBody, d)
        /\ analysisComplete(loadHistoryState(appState, d))
        /\ UNCHANGED <<titleValue, textValue, resultsSection, initHistoryPc,
                       predictCalls, historyCalls, submitEvents, data,
                       dashVars, widgetVars>>

\* initializeApp's loadHistory(): the GET resolves
initHistoryFetchResolve ==
    /\ initHistoryPc = "fetch"
    /\ initHistoryPc' = "json"
    /\ UNCHANGED <<titleValue, textValue, appState, submitBtn, loadingSpinner,
                   resultsSection, historyTableBody, mainNotifications, submitPc,
                   predictCalls, historyCalls, submitEvents, data,
                       dashVars, widgetVars>>

\* initializeApp's loadHistory(): the GET or response.json() rejects (logged only)
initHistoryReject ==
    /\ initHistoryPc \in {"fetch", "json"}
    /\ initHistoryPc' = "done"
    /\ UNCHANGED <<titleValue, textValue, appState, submitBtn, loadingSpinner,
                   resultsSection, historyTableBody, mainNotifications, submitPc,
                   predictCalls, historyCalls, submitEvents, data,
                       dashVars, widgetVars>>

\* initializeApp's loadHistory(): response.json() resolves
initHistoryJsonResolve ==
    \E d \in MainHistoryPayloads :
        /\ initHistoryPc = "json"
        /\ initHistoryPc' = "done"
        /\ appState' = loadHistoryState(appState, d)
        /\ historyTableBody' = loadHistoryTable(historyTableBody, d)
        /\ UNCHANGED <<titleValue, textValue, submitBtn, loadingSpinner,
                       resultsSection, mainNotifications, submitPc,
                       predictCalls, historyCalls, submitEvents, data,
                       dashVars, widgetVars>>

\* the steps by which a submission in flight goes on
submitContinues ==
    \/ predictFetchResolve
    \/ predictFetchReject
    \/ predictJsonReject
    \/ predictJsonResolve
    \/ submitHistoryFetchResolve
    \/ submitHistoryFetchReject
    \/ submitHistoryJsonReject
    \/ submitHistoryJsonResolve

NextMain ==
    \/ inputTitle
    \/ inputText
    \/ clearForm
    \/ handleFormSubmit
    \/ submitContinues
    \/ initHistoryFetchResolve
    \/ initHistoryReject
    \/ initHistoryJsonResolve

(***************************************************************************)
(* dashboard.js: aggregation                                               *)
(***************************************************************************)
\* a chart that was never created (dashboardState.charts starts as {})
NoChart == Undefined

\* Date.prototype.toLocaleDateString: the local calendar date, the time dropped
toLocaleDateString(ts) == ts.day

\* date.setDate(date.getDate() - i)
daysBefore(ts, i) == [ts EXCEPT !.day = ts.day - i]

\* getLastNDays with the loop run from n down to 1: today is left out
getLastNDays_OffByOne(n, clock) ==
    [k \in 1..n |-> toLocaleDateString(daysBefore(clock, n - k + 1))]

\* getLastNDays: the loop runs i = n-1 down to 0, so entry k is n-k days back
getLastNDays(n, clock) ==
    [k \in 1..n |-> toLocaleDateString(daysBefore(clock, n - k))]

\* Array.prototype.indexOf, 1-based; 0 stands for -1
indexOf(list, x) ==
    IF \E i \in DOMAIN list : list[i] = x
    THEN CHOOSE i \in DOMAIN list : list[i] = x /\ \A j \in 1..(i - 1) : list[j] # x
    ELSE 0

\* number of day buckets of the time chart (getLastNDays(7), new Array(7))
DaysShown == 7

\* new Array(n).fill(0)
zeros(n) == [k \in 1..n |-> 0]

\* the body of getTimeChartData's forEach for one prediction
countByDay(counts, p, lastDays) ==
    LET date == toLocaleDateString(p.timestamp)
        index == indexOf(lastDays, date)
    IN  IF index # 0
        THEN IF p.result = FAKE
             THEN [counts EXCEPT !.fake[index] = @ + 1]
             ELSE IF p.result = REAL
             THEN [counts EXCEPT !.real[index] = @ + 1]
             ELSE IF p.result = SUSPICIOUS
             THEN [counts EXCEPT !.suspicious[index] = @ + 1]
             ELSE counts
        ELSE counts

RECURSIVE countAllByDay(_, _, _)
countAllByDay(counts, predictions, lastDays) ==
    IF predictions = <<>> THEN counts
    ELSE countAllByDay(countByDay(counts, Head(predictions), lastDays),
                       Tail(predictions), lastDays)

\* getTimeChartData
getTimeChartData(predictions, clock) ==
    LET last7Days == getLastNDays(DaysShown, clock)
        counts == countAllByDay([fake |-> zeros(DaysShown), real |-> zeros(DaysShown),
                                 suspicious |-> zeros(DaysShown)],
                                predictions, last7Days)
    IN  [labels |-> last7Days,
         datasets |-> [fake |-> counts.fake, real |-> counts.real,
                       suspicious |-> counts.suspicious]]

\* confidences are in units of 1/10000, so one percent of `conf` is this many units
PercentUnit == 10000

\* the labels of getConfidenceData's ranges, in Object.keys order
RangeLabels == <<"0-20%", "21-40%", "41-60%", "61-80%", "81-100%">>

\* the if-chain with the cutoffs exclusive (< for <=)
confidenceRange_Exclusive(confidence) ==
    LET conf == confidence * 100
    IN  IF conf < 20 * PercentUnit THEN 1
        ELSE IF conf < 40 * PercentUnit THEN 2
        ELSE IF conf < 60 * PercentUnit THEN 3
        ELSE IF conf < 80 * PercentUnit THEN 4
        ELSE 5

\* the if-chain of getConfidenceData: the index of the range incremented
confidenceRange(confidence) ==
    LET conf == confidence * 100
    IN  IF conf <= 20 * PercentUnit THEN 1
        ELSE IF conf <= 40 * PercentUnit THEN 2
        ELSE IF conf <= 60 * PercentUnit THEN 3
        ELSE IF conf <= 80 * PercentUnit THEN 4
        ELSE 5

RECURSIVE countRanges(_, _)
countRanges(ranges, predictions) ==
    IF predictions = <<>> THEN ranges
    ELSE countRanges([ranges EXCEPT ![confidenceRange(Head(predictions).confidence)] = @ + 1],
                     Tail(predictions))

\* getConfidenceData
getConfidenceData(predictions) ==
    [labels |-> RangeLabels, data |-> countRanges(zeros(Len(RangeLabels)), predictions)]

\* predictions.filter(p => p.result === result).length
countResult(predictions, result) ==
    Len(SelectSeq(predictions, LAMBDA p : p.result = result))

\* loadStatistics with a mistyped category label
loadStatistics_WrongLabel(predictions) ==
    [total |-> Len(predictions),
     fake |-> countResult(predictions, FAKE),
     real |-> countResult(predictions, "REAL"),
     suspicious |-> countResult(predictions, SUSPICIOUS)]

\* loadStatistics: the new dashboardState.statistics
loadStatistics(predictions) ==
    [total |-> Len(predictions),
     fake |-> countResult(predictions, FAKE),
     real |-> countResult(predictions, REAL),
     suspicious |-> countResult(predictions, SUSPICIOUS)]

\* getDistributionData
getDistributionData(statistics) ==
    [labels |-> <<"Fake News", "Real News", "Suspicious">>,
     data |-> <<statistics.fake, statistics.real, statistics.suspicious>>]

\* updateKPIs
updateKPIs(statistics) ==
    [totalPredictions |-> statistics.total, fakeCount |-> statistics.fake,
     realCount |-> statistics.real, suspiciousCount |-> statistics.suspicious]

\* the placeholder row of the dashboard's table
RecentEmptyRow == [emptyState |-> TRUE, text |-> "No predictions yet"]

\* number of rows shown on the dashboard (predictions.slice(0, 10))
DashboardRows == 10

\* updateRecentPredictions: the new rows of #recentPredictions
updateRecentPredictions(predictions) ==
    LET recent == slice(predictions, DashboardRows)
    IN  IF Len(recent) = 0 THEN <<RecentEmptyRow>> ELSE renderRows(recent)

RECURSIVE sumConfidence(_)
sumConfidence(predictions) ==
    IF predictions = <<>> THEN 0
    ELSE Head(predictions).confidence + sumConfidence(Tail(predictions))

\* updateModelMetrics: (avgConfidence * 100).toFixed(1), in tenths of a percent
updateModelMetrics(predictions) ==
    IF Len(predictions) > 0
    THEN (2 * sumConfidence(predictions) + 10 * Len(predictions))
             \div (20 * Len(predictions))
    ELSE 0

(***************************************************************************)
(* dashboard.js: the page and its refresh cycles                           *)
(***************************************************************************)
\* PredictionRecords the backend records while the dashboard is open
DashRecords ==
    {[timestamp |-> Timestamp(30, 10), title |-> "d1", result |-> FAKE,
      confidence |-> 9200],
     [timestamp |-> Timestamp(29, 23), title |-> "d2", result |-> REAL,
      confidence |-> 2000],
     [timestamp |-> Timestamp(20, 8), title |-> "d3", result |-> "UNVERIFIED",
      confidence |-> 6050]}

\* a refresh cycle that has not started
NoCycle == [kind |-> "none", pc |-> "none", body |-> Undefined]

\* a refresh cycle up to `await fetch('/api/history')`
startedCycle(kind) == [kind |-> kind, pc |-> "fetch", body |-> Undefined]

\* dashboardState as the script declares it (lines 4-13)
dashboardStateDeclared ==
    [predictions |-> <<>>,
     statistics |-> [total |-> 0, fake |-> 0, real |-> 0, suspicious |-> 0],
     charts |-> [time |-> NoChart, distribution |-> NoChart, confidence |-> NoChart]]

\* the dashboard before DOMContentLoaded
dashboardUnloaded ==
    /\ dashboardState = dashboardStateDeclared
    /\ kpis = updateKPIs(dashboardStateDeclared.statistics)
    /\ recentPredictions = <<>>
    /\ avgConfidence = 0
    /\ dashNotifications = <<>>
    /\ dashboardLoader = "none"
    /\ cycles = [c \in 1..MaxCycles |-> NoCycle]
    /\ serverHistory = <<>>
    /\ now = Timestamp(30, 12)

\* the main page, never interacted with
mainPageIdle ==
    /\ mainPageLoaded
    /\ submitBtn.disabled = FALSE

\* neither page was interacted with
pagesIdle == mainPageIdle /\ dashboardUnloaded

\* the dashboard after DOMContentLoaded: initializeDashboard has shown the loader
\* and awaits its fetch; the timer is armed
InitDash ==
    /\ mainPageIdle
    /\ widgetsIdle
    /\ dashboardState = dashboardStateDeclared
    /\ kpis = updateKPIs(dashboardStateDeclared.statistics)
    /\ recentPredictions = <<>>
    /\ avgConfidence = 0
    /\ dashNotifications = <<>>
    /\ dashboardLoader = "flex"
    /\ cycles = [c \in 1..MaxCycles |-> IF c = 1 THEN startedCycle("init") ELSE NoCycle]
    /\ serverHistory \in UNION {[1..k -> DashRecords] : k \in 0..1}
    /\ now = Timestamp(30, 12)

\* the next free slot for a refresh cycle
freeCycle(c) ==
    /\ cycles[c].kind = "none"
    /\ \A b \in 1..(c - 1) : cycles[b].kind # "none"

\* refreshDashboard up to its `await fetch`: a click on #refreshDashboard
refreshDashboard ==
    \E c \in 1..MaxCycles :
        /\ freeCycle(c)
        /\ cycles' = [cycles EXCEPT ![c] = startedCycle("manual")]
        /\ dashboardLoader' = "flex"
        /\ UNCHANGED <<dashboardState, kpis, recentPredictions, avgConfidence,
                       dashNotifications, serverHistory, now, mainVars, widgetVars>>

\* the setInterval callback up to its `await fetch`
timerTick ==
    \E c \in 1..MaxCycles :
        /\ freeCycle(c)
        /\ cycles' = [cycles EXCEPT ![c] = startedCycle("timer")]
        /\ UNCHANGED <<dashboardState, kpis, recentPredictions, avgConfidence,
                       dashNotifications, dashboardLoader, serverHistory, now, mainVars, widgetVars>>

\* the backend records a prediction (newest first)
serverRecords ==
    \E r \in DashRecords :
        /\ Len(serverHistory) < MaxServerHistory
        /\ serverHistory' = <<r>> \o serverHistory
        /\ UNCHANGED <<dashboardState, kpis, recentPredictions, avgConfidence,
                       dashNotifications, dashboardLoader, cycles, now, mainVars, widgetVars>>

\* loadPredictions: the GET resolves; the backend answered with its history, or
\* with a payload that has no history
cycleFetchResolve ==
    \E c \in 1..MaxCycles :
        \E body \in {[history |-> Arr(serverHistory)], [history |-> Undefined]} :
            /\ cycles[c].pc = "fetch"
            /\ cycles' = [cycles EXCEPT ![c].pc = "json", ![c].body = body]
            /\ UNCHANGED <<dashboardState, kpis, recentPredictions, avgConfidence,
                           dashNotifications, dashboardLoader, serverHistory, now,
                           mainVars, widgetVars>>

\* loadPredictions rethrows: what the cycle of each kind does with the exception
cycleFails(c) ==
    /\ cycles' = [cycles EXCEPT ![c].pc = "failed", ![c].body = Undefined]
    /\ IF cycles[c].kind = "init"
       THEN /\ dashNotifications' =
                   showNotification(dashNotifications, "Failed to load dashboard data",
                                    "error")
            /\ dashboardLoader' = "none"
       ELSE IF cycles[c].kind = "manual"
       THEN /\ dashNotifications' =
                   showNotification(dashNotifications, "Failed to refresh", "error")
            /\ dashboardLoader' = "none"
       ELSE \* the timer callback has no catch: the rejection is unhandled
            UNCHANGED <<dashNotifications, dashboardLoader>>

\* loadPredictions: the GET rejects
cycleFetchReject ==
    \E c \in 1..MaxCycles :
        /\ cycles[c].pc = "fetch"
        /\ cycleFails(c)
        /\ UNCHANGED <<dashboardState, kpis, recentPredictions, avgConfidence,
                       serverHistory, now, mainVars, widgetVars>>

\* loadPredictions: response.json() rejects
cycleJsonReject ==
    \E c \in 1..MaxCycles :
        /\ cycles[c].pc = "json"
        /\ cycleFails(c)
        /\ UNCHANGED <<dashboardState, kpis, recentPredictions, avgConfidence,
                       serverHistory, now, mainVars, widgetVars>>

\* `data.history || []`
historyOrEmpty(d) == IF d.history = Undefined THEN <<>> ELSE d.history.array

\* line 43 behind a request-generation guard: the response of cycle c is
\* dropped once a cycle issued after it has stored its history
loadPredictions_Guarded(st, c) ==
    IF \E b \in (c + 1)..MaxCycles : cycles[b].pc \in {"loaded", "stats", "done"}
    THEN st
    ELSE [st EXCEPT !.predictions = historyOrEmpty(cycles[c].body)]

\* line 43: dashboardState.predictions = data.history || []
loadPredictions(st, c) ==
    [st EXCEPT !.predictions = historyOrEmpty(cycles[c].body)]

\* loadPredictions: response.json() resolves (line 43)
cycleJsonResolve ==
    \E c \in 1..MaxCycles :
        /\ cycles[c].pc = "json"
        /\ dashboardState' = loadPredictions(dashboardState, c)
        /\ cycles' = [cycles EXCEPT ![c].pc = "loaded", ![c].body = Undefined]
        /\ UNCHANGED <<kpis, recentPredictions, avgConfidence, dashNotifications,
                       dashboardLoader, serverHistory, now, mainVars, widgetVars>>

\* loadPredictions() called without `await`: the cycle goes on at once
predictionsLoaded_NoAwait(cycle) == cycle.pc \in {"fetch", "json", "loaded"}

\* the cycle is past `await loadPredictions()`
predictionsLoaded(cycle) == cycle.pc = "loaded"

\* the call of loadStatistics() that follows `await loadPredictions()`
cycleLoadStatistics ==
    \E c \in 1..MaxCycles :
        /\ predictionsLoaded(cycles[c])
        /\ dashboardState' =
               [dashboardState EXCEPT
                   !.statistics = loadStatistics(dashboardState.predictions)]
        /\ cycles' = [cycles EXCEPT ![c].pc = "stats"]
        /\ UNCHANGED <<kpis, recentPredictions, avgConfidence, dashNotifications,
                       dashboardLoader, serverHistory, now, mainVars, widgetVars>>

\* the cycle is past `await loadStatistics()`
statisticsLoaded(cycle) == cycle.pc = "stats"

\* initializeCharts: the three charts are created with the current aggregates
initializeCharts(st, clock) ==
    [time |-> getTimeChartData(st.predictions, clock),
     distribution |-> getDistributionData(st.statistics),
     confidence |-> getConfidenceData(st.predictions)]

\* the chart updates of refreshDashboard and of the timer: a chart that was
\* never created is skipped
updateCharts(st, clock) ==
    [time |-> IF st.charts.time # NoChart
              THEN getTimeChartData(st.predictions, clock) ELSE NoChart,
     distribution |-> IF st.charts.distribution # NoChart
                      THEN getDistributionData(st.statistics) ELSE NoChart,
     confidence |-> IF st.charts.confidence # NoChart
                    THEN getConfidenceData(st.predictions) ELSE NoChart]

\* the rest of a cycle after `await loadStatistics()`: the charts, then
\* updateDashboardUI, then the toast and hideLoading of its kind
cycleRender ==
    \E c \in 1..MaxCycles :
        /\ statisticsLoaded(cycles[c])
        /\ dashboardState' =
               [dashboardState EXCEPT
                   !.charts = IF cycles[c].kind = "init"
                              THEN initializeCharts(dashboardState, now)
                              ELSE updateCharts(dashboardState, now)]
        /\ kpis' = updateKPIs(dashboardState.statistics)
        /\ recentPredictions' = updateRecentPredictions(dashboardState.predictions)
        /\ avgConfidence' = updateModelMetrics(dashboardState.predictions)
        /\ dashNotifications' =
               IF cycles[c].kind = "manual"
               THEN showNotification(dashNotifications, "Dashboard refreshed", "success")
               ELSE dashNotifications
        /\ dashboardLoader' = IF cycles[c].kind = "timer" THEN dashboardLoader ELSE "none"
        /\ cycles' = [cycles EXCEPT ![c].pc = "done"]
        /\ UNCHANGED <<serverHistory, now, mainVars, widgetVars>>

NextDash ==
    \/ refreshDashboard
    \/ timerTick
    \/ serverRecords
    \/ cycleFetchResolve
    \/ cycleFetchReject
    \/ cycleJsonReject
    \/ cycleJsonResolve
    \/ cycleLoadStatistics
    \/ cycleRender

(***************************************************************************)
(* The two history tables, applied to every history list                   *)
(***************************************************************************)
TableRecords ==
    {[timestamp |-> Timestamp(30, 10), title |-> "a", result |-> FAKE,
      confidence |-> 9200],
     [timestamp |-> Timestamp(29, 8), title |-> "b", result |-> SUSPICIOUS,
      confidence |-> 4555]}

\* the list page holds history h and the dashboard holds predictions h; neither
\* table is rendered yet
InitTable ==
    \E h \in UNION {[1..k -> TableRecords] : k \in 0..MaxTableHistory} :
        /\ titleValue = <<>>
        /\ textValue = <<>>
        /\ appState = [isAnalyzing |-> FALSE, lastResult |-> Null, history |-> Arr(h)]
        /\ submitBtn = setLoadingBtn(FALSE)
        /\ loadingSpinner = "none"
        /\ resultsSection = [display |-> "none", html |-> EmptyHtml]
        /\ historyTableBody = <<>>
        /\ mainNotifications = <<>>
        /\ submitPc = "idle"
        /\ data = Undefined
        /\ initHistoryPc = "done"
        /\ predictCalls = 0
        /\ historyCalls = 1
        /\ submitEvents = 0
        /\ dashboardState = [dashboardStateDeclared EXCEPT !.predictions = h]
        /\ kpis = updateKPIs(dashboardStateDeclared.statistics)
        /\ recentPredictions = <<>>
        /\ avgConfidence = 0
        /\ dashNotifications = <<>>
        /\ dashboardLoader = "none"
        /\ cycles = [c \in 1..MaxCycles |-> NoCycle]
        /\ serverHistory = h
        /\ now = Timestamp(30, 12)
        /\ widgetsIdle

\* updateHistoryTable(appState.history) on the list page
renderHistoryTable ==
    /\ historyTableBody' = updateHistoryTable(appState.history.array)
    /\ UNCHANGED <<titleValue, textValue, appState, submitBtn, loadingSpinner,
                   resultsSection, mainNotifications, submitPc, data, initHistoryPc,
                   predictCalls, historyCalls, submitEvents, dashVars, widgetVars>>

\* updateRecentPredictions() on the dashboard
renderRecentPredictions ==
    /\ recentPredictions' = updateRecentPredictions(dashboardState.predictions)
    /\ UNCHANGED <<dashboardState, kpis, avgConfidence, dashNotifications,
                   dashboardLoader, cycles, serverHistory, now, mainVars, widgetVars>>

NextTable ==
    \/ renderHistoryTable
    \/ renderRecentPredictions

SpecTable == InitTable /\ [][NextTable]_vars

(***************************************************************************)
(* The chart aggregates, applied to every prediction list                  *)
(***************************************************************************)
\* records that differ in confidence, around each cutoff of the histogram
ConfidenceRecords ==
    {[timestamp |-> Timestamp(30, 10), title |-> "x", result |-> FAKE, confidence |-> c] :
        c \in {0, 2000, 2001, 4000, 6050, 8000, 8001, 10000}}

\* records that differ in local date, hour and category: today (day 30) at its
\* first and last hour, tomorrow, 6, 7 and 10 days ago
DatedRecords ==
    {[timestamp |-> ts, title |-> "x", result |-> r, confidence |-> 5000] :
        ts \in {Timestamp(30, 0), Timestamp(30, 23), Timestamp(31, 0),
                Timestamp(24, 12), Timestamp(23, 23), Timestamp(20, 12)},
        r \in {FAKE, REAL, SUSPICIOUS, "UNVERIFIED"}}

\* the dashboard holds predictions h, at some hour of day 30; no chart exists yet
InitAggregate ==
    \E h \in UNION {[1..k -> ConfidenceRecords \cup DatedRecords] : k \in 0..MaxAggregated} :
        /\ mainPageIdle
        /\ widgetsIdle
        /\ dashboardState = [dashboardStateDeclared EXCEPT !.predictions = h]
        /\ kpis = updateKPIs(dashboardStateDeclared.statistics)
        /\ recentPredictions = <<>>
        /\ avgConfidence = 0
        /\ dashNotifications = <<>>
        /\ dashboardLoader = "none"
        /\ cycles = [c \in 1..MaxCycles |-> NoCycle]
        /\ serverHistory = h
        /\ now \in {Timestamp(30, 0), Timestamp(30, 23)}

\* the time chart gets getTimeChartData()
computeTimeChart ==
    /\ dashboardState' =
           [dashboardState EXCEPT
               !.charts.time = getTimeChartData(dashboardState.predictions, now)]
    /\ UNCHANGED <<kpis, recentPredictions, avgConfidence, dashNotifications,
                   dashboardLoader, cycles, serverHistory, now, mainVars, widgetVars>>

\* the confidence chart gets getConfidenceData()
computeConfidenceChart ==
    /\ dashboardState' =
           [dashboardState EXCEPT
               !.charts.confidence = getConfidenceData(dashboardState.predictions)]
    /\ UNCHANGED <<kpis, recentPredictions, avgConfidence, dashNotifications,
                   dashboardLoader, cycles, serverHistory, now, mainVars, widgetVars>>

NextAggregate ==
    \/ computeTimeChart
    \/ computeConfidenceChart

SpecAggregate == InitAggregate /\ [][NextAggregate]_vars

(***************************************************************************)
(* Specifications: one per page                                            *)
(***************************************************************************)
\* the main page after DOMContentLoaded
InitMain == mainPageLoaded /\ dashboardUnloaded /\ widgetsIdle

SpecMain == InitMain /\ [][NextMain]_vars

\* every fetch and every response.json() of a submission settles
FairMain == SpecMain /\ WF_vars(submitContinues)

SpecDash == InitDash /\ [][NextDash]_vars

(***************************************************************************)
(* showNotification (main.js 304-339, dashboard.js 386-423): the life of   *)
(* the toasts                                                              *)
(***************************************************************************)
\* number of toasts created while the page is open
MaxNotifications == 3

\* calls of showNotification made by the pages
NotificationCalls ==
    {[message |-> "Analysis complete!", type |-> "success"],
     [message |-> "Failed to refresh", type |-> "error"]}

\* showNotification with the setTimeout left out
newNotification_NoTimer(call) ==
    [message |-> call.message, type |-> call.type, inBody |-> TRUE,
     animation |-> "slideInRight", timer |-> "none"]

\* the element showNotification creates and appends to document.body, and the
\* 5000 ms timer it starts
newNotification(call) ==
    [message |-> call.message, type |-> call.type, inBody |-> TRUE,
     animation |-> "slideInRight", timer |-> "dismiss"]

\* Element.remove(): detach the element; nothing happens if it is detached
remove(notification) == [notification EXCEPT !.inBody = FALSE]

\* a call of showNotification
notify ==
    \E call \in NotificationCalls :
        /\ Len(notifications) < MaxNotifications
        /\ notifications' = Append(notifications, newNotification(call))
        /\ UNCHANGED <<counter, mainVars, dashVars>>

\* the 5000 ms timer of notification i fires: slide out, start the 300 ms timer
dismissTimerFires(i) ==
    /\ i \in DOMAIN notifications
    /\ notifications[i].timer = "dismiss"
    /\ notifications' = [notifications EXCEPT ![i].animation = "slideOutRight",
                                               ![i].timer = "remove"]
    /\ UNCHANGED <<counter, mainVars, dashVars>>

\* the 300 ms timer of notification i fires: notification.remove()
removeTimerFires(i) ==
    /\ i \in DOMAIN notifications
    /\ notifications[i].timer = "remove"
    /\ notifications' = [notifications EXCEPT ![i] = [remove(@) EXCEPT !.timer = "none"]]
    /\ UNCHANGED <<counter, mainVars, dashVars>>

\* a click on notification i, which is in the page: notification.remove()
clickNotification(i) ==
    /\ i \in DOMAIN notifications
    /\ notifications[i].inBody
    /\ notifications' = [notifications EXCEPT ![i] = remove(@)]
    /\ UNCHANGED <<counter, mainVars, dashVars>>

dismissTimer == \E i \in 1..MaxNotifications : dismissTimerFires(i)

removeTimer == \E i \in 1..MaxNotifications : removeTimerFires(i)

click == \E i \in 1..MaxNotifications : clickNotification(i)

InitNotify == pagesIdle /\ widgetsIdle

NextNotify ==
    \/ notify
    \/ dismissTimer
    \/ removeTimer
    \/ click

SpecNotify == InitNotify /\ [][NextNotify]_vars

\* a timer that was started fires
FairNotify ==
    /\ SpecNotify
    /\ \A i \in 1..MaxNotifications :
           WF_vars(dismissTimerFires(i)) /\ WF_vars(removeTimerFires(i))

(***************************************************************************)
(* animations.js: initCounters (149-179), for one .counter element.        *)
(* `current` and `step` are doubles in the script; here the sum is exact:  *)
(* after k calls of updateCounter, current = k * step.                     *)
(***************************************************************************)
\* largest data-target
MaxTarget == 3

\* entries handed to one call of the observer's callback
MaxEntries == 3

\* calls of updateCounter followed (an animation that never ends is cut here)
MaxFrames == 130

\* the divisor of the duration in `step`: the length of a frame in ms
FrameMs == 16

\* parseInt of an attribute that is missing or not a number
NaN == [nan |-> TRUE]

\* parseInt of an attribute that holds the integer n
Num(n) == [number |-> n]

\* parseInt(counter.dataset.duration)
DurationAttributes == {NaN, Num(0), Num(24), Num(48), Num(-16)}

\* `parseInt(counter.dataset.duration) || 2000`: NaN and 0 are falsy
durationOrDefault(parsed) ==
    IF parsed = NaN \/ parsed = Num(0) THEN DefaultDuration ELSE parsed.number

\* `current < target` after k calls, with current = k * target / (duration / 16)
currentBelowTarget(k, target, duration) ==
    IF duration > 0
    THEN FrameMs * k * target < target * duration
    ELSE -(FrameMs * k * target) < target * (-duration)

\* Math.floor(current) after k calls
floorCurrent(k, target, duration) ==
    IF duration > 0
    THEN (FrameMs * k * target) \div duration
    ELSE -((FrameMs * k * target + (-duration) - 1) \div (-duration))

\* updateCounter with Math.floor(current) written in the else branch too
updateCounter_Overshoot(c) ==
    LET k == c.frames + 1
        below == currentBelowTarget(k, c.target, c.duration)
    IN  [c EXCEPT !.frames = k,
                  !.textContent = floorCurrent(k, c.target, c.duration),
                  !.scheduled = IF below THEN @ + 1 ELSE @]

\* updateCounter: current += step, then either the floor is shown and the next
\* frame requested, or the target is shown
updateCounter(c) ==
    LET k == c.frames + 1
        below == currentBelowTarget(k, c.target, c.duration)
    IN  [c EXCEPT !.frames = k,
                  !.textContent = IF below THEN floorCurrent(k, c.target, c.duration)
                                  ELSE c.target,
                  !.scheduled = IF below THEN @ + 1 ELSE @]

\* the body of the callback's forEach for one entry
handleEntry(c, isIntersecting) ==
    IF isIntersecting
    THEN [updateCounter(c) EXCEPT !.started = @ + 1, !.observed = FALSE]
    ELSE c

\* entries.forEach(...)
RECURSIVE forEachEntry(_, _)
forEachEntry(c, entries) ==
    IF entries = <<>> THEN c
    ELSE forEachEntry(handleEntry(c, Head(entries)), Tail(entries))

\* what an observer queues for one target between two calls of the callback:
\* an entry each time isIntersecting changed
EntryLists ==
    {entries \in UNION {[1..n -> BOOLEAN] : n \in 1..MaxEntries} :
        \A i \in 1..(Len(entries) - 1) : entries[i + 1] # entries[i]}

\* initCounters for the element: the closure, and counterObserver.observe(counter)
initCounters(target, parsedDuration) ==
    [target |-> target, duration |-> durationOrDefault(parsedDuration),
     observed |-> TRUE, started |-> 0, frames |-> 0, scheduled |-> 0,
     textContent |-> 0]

InitCounter ==
    /\ pagesIdle
    /\ notifications = <<>>
    /\ counter \in {initCounters(t, d) : t \in 0..MaxTarget, d \in DurationAttributes}

\* the observer calls the callback with the entries queued for the element
intersectionCallback ==
    \E entries \in EntryLists :
        /\ counter.observed
        /\ counter' = forEachEntry(counter, entries)
        /\ UNCHANGED <<notifications, mainVars, dashVars>>

\* a frame: one callback given to requestAnimationFrame runs
animationFrame ==
    /\ counter.scheduled > 0
    /\ counter.frames < MaxFrames
    /\ counter' = [updateCounter(counter) EXCEPT !.scheduled = @ - 1]
    /\ UNCHANGED <<notifications, mainVars, dashVars>>

NextCounter ==
    \/ intersectionCallback
    \/ animationFrame

SpecCounter == InitCounter /\ [][NextCounter]_vars

\* the browser runs every requested animation frame
FairCounter == SpecCounter /\ WF_vars(animationFrame)

(***************************************************************************)
(* Prediction submission flow: properties                                  *)
(***************************************************************************)
\* the last toast shown
lastNotification == mainNotifications[Len(mainNotifications)]

\* this step handles a submit event
submitDispatched == submitEvents' = submitEvents + 1

\* C1: for every (title, text) pair in which both fields are empty or consist
\* only of white space, handleFormSubmit blocks the submission: no request is
\* sent to the prediction endpoint and isAnalyzing is left as it was (false).
C1_BlankInputBlocked ==
    [][(submitDispatched /\ IsBlank(titleValue) /\ IsBlank(textValue))
          => (/\ predictCalls' = predictCalls
              /\ appState'.isAnalyzing = appState.isAnalyzing)]_vars

\* C2: a submit event handled while a submission is in flight sends no request
\* (so one request in total serves the two attempts), leaves the submission in
\* flight where it is (it is not cancelled, and nothing is queued), and shows
\* exactly one 'Already analyzing...' warning.
C2_SecondSubmitRejected ==
    [][(submitDispatched /\ submitPc # "idle")
          => (/\ predictCalls' = predictCalls
              /\ submitPc' = submitPc
              /\ appState' = appState
              /\ mainNotifications' =
                     Append(mainNotifications,
                            [message |-> "Already analyzing...", type |-> "warning"]))]_vars

\* a second submit was rejected while the first request was still pending
C2_Witness ==
    /\ submitEvents = 2
    /\ submitPc = "fetchPredict"
    /\ predictCalls = 1
    /\ Len(mainNotifications) = 1
    /\ lastNotification.message = "Already analyzing..."

\* C3: every submission that set isAnalyzing to true eventually resets it to
\* false, whatever the prediction request and the history reload come to.
C3_FlagAlwaysReset == appState.isAnalyzing ~> ~appState.isAnalyzing

\* a submission whose rendering threw has ended with the flag reset
C3_Witness ==
    /\ predictCalls >= 1
    /\ submitPc = "idle"
    /\ ~appState.isAnalyzing
    /\ data # Undefined /\ data # Null /\ data.success
    /\ displayResultThrows(prop(data, "prediction"), prop(data, "preview"))

\* the submission in flight has failed: the fetch or the parse rejected (there
\* is no data), the payload is null, or the payload has success false
submissionFailed(d) == d \in {Undefined, Null} \/ ~d.success

\* C4: no step of a failing submission changes the results section (neither
\* its visibility nor its content), and the step that ends it shows an error
\* notification.
C4_FailureKeepsResults ==
    [][(submitPc' # submitPc /\ submissionFailed(data'))
          => (/\ resultsSection' = resultsSection
              /\ (submitPc' = "idle" =>
                     /\ Len(mainNotifications') = Len(mainNotifications) + 1
                     /\ mainNotifications'[Len(mainNotifications')].type = "error"))]_vars

\* a submission has failed while the card of an earlier one is displayed
C4_Witness ==
    /\ submitPc = "idle"
    /\ data # Undefined /\ data # Null /\ ~data.success
    /\ resultsSection.display = "block"
    /\ resultsSection.html # EmptyHtml
    /\ lastNotification.type = "error"

\* the payload is a success that carries the prediction and the preview
successPayload(d) ==
    /\ d \notin {Undefined, Null}
    /\ d.success
    /\ ~displayResultThrows(prop(d, "prediction"), prop(d, "preview"))

minimum(a, b) == IF a < b THEN a ELSE b

\* rows is the rendering of list in a table of at most n rows
tableShows(rows, list, n, placeholder) ==
    IF Len(list) = 0
    THEN rows = <<placeholder>>
    ELSE /\ Len(rows) = minimum(Len(list), n)
         /\ \A i \in 1..Len(rows) :
                /\ rows[i] = renderRow(list[i])
                /\ rows[i].title = list[i].title
                /\ rows[i].result = list[i].result

\* C6: for every history list, a rendered table holds exactly one placeholder
\* row if the list is empty, and otherwise the rows of the first min(length, N)
\* entries in their original order, N = 5 on the list page (updateHistoryTable)
\* and N = 10 on the dashboard (updateRecentPredictions).
C6_TablesShowFirstN ==
    /\ historyTableBody # <<>> =>
           tableShows(historyTableBody, appState.history.array, 5, EmptyStateRow)
    /\ recentPredictions # <<>> =>
           tableShows(recentPredictions, dashboardState.predictions, 10, RecentEmptyRow)

\* a list of 11 entries, not all alike, is rendered into 5 and into 10 rows
C6_Witness ==
    /\ Len(dashboardState.predictions) = 11
    /\ dashboardState.predictions[1].title # dashboardState.predictions[2].title
    /\ Len(historyTableBody) = 5
    /\ Len(recentPredictions) = 10

\* confidence*100 lies in range k; the confidence is in 1/10000, so 20% is 2000
inRange(confidence, k) ==
    IF k = 1 THEN confidence <= 2000
    ELSE IF k = 5 THEN confidence > 8000
    ELSE 2000 * (k - 1) < confidence /\ confidence <= 2000 * k

RECURSIVE sumOf(_)
sumOf(seq) == IF seq = <<>> THEN 0 ELSE Head(seq) + sumOf(Tail(seq))

\* C7: getConfidenceData puts each prediction in exactly one of the five
\* buckets, decided by confidence*100 alone with each cutoff inclusive on the
\* lower bucket; 0, 20, 20.01, 40, 60.5 and 100 go to '0-20%', '0-20%',
\* '21-40%', '21-40%', '61-80%' and '81-100%'; the counts sum to the number of
\* predictions.
C7_ConfidenceBuckets ==
    LET chart == dashboardState.charts.confidence
        preds == dashboardState.predictions
    IN  chart # NoChart =>
            /\ chart.labels = <<"0-20%", "21-40%", "41-60%", "61-80%", "81-100%">>
            /\ \A k \in 1..5 :
                   chart.data[k] =
                       Cardinality({i \in DOMAIN preds : inRange(preds[i].confidence, k)})
            /\ sumOf(chart.data) = Len(preds)
            /\ \A e \in {<<0, "0-20%">>, <<2000, "0-20%">>, <<2001, "21-40%">>,
                         <<4000, "21-40%">>, <<6050, "61-80%">>, <<10000, "81-100%">>} :
                   (Len(preds) = 1 /\ preds[1].confidence = e[1]) =>
                       \A k \in 1..5 :
                           chart.data[k] = IF chart.labels[k] = e[2] THEN 1 ELSE 0

\* the histogram of a prediction at exactly 20% and one at 20.01%
C7_Witness ==
    /\ dashboardState.charts.confidence # NoChart
    /\ Len(dashboardState.predictions) = 2
    /\ dashboardState.predictions[1].confidence = 2000
    /\ dashboardState.predictions[2].confidence = 2001
    /\ dashboardState.charts.confidence.data = <<1, 1, 0, 0, 0>>

\* the category each dataset of the time chart counts
datasetCategory == [fake |-> FAKE, real |-> REAL, suspicious |-> SUSPICIOUS]

\* C8: in getTimeChartData, counter k of a category counts exactly the records
\* of that category whose local date is 7-k days before today.  So a record
\* dated today adds one to the 7th counter of its own category and to no other
\* counter, and a record dated outside the 7 trailing days (10 days ago) adds
\* to none of the 21 counters.
C8_TimeBuckets ==
    LET chart == dashboardState.charts.time
        preds == dashboardState.predictions
    IN  chart # NoChart =>
            /\ \A cat \in {"fake", "real", "suspicious"} : \A k \in 1..7 :
                   chart.datasets[cat][k] =
                       Cardinality({i \in DOMAIN preds :
                                       /\ preds[i].result = datasetCategory[cat]
                                       /\ preds[i].timestamp.day = now.day - (7 - k)})
            /\ sumOf(chart.datasets.fake) + sumOf(chart.datasets.real)
                   + sumOf(chart.datasets.suspicious) =
                   Cardinality({i \in DOMAIN preds :
                                   /\ preds[i].result \in {FAKE, REAL, SUSPICIOUS}
                                   /\ preds[i].timestamp.day \in (now.day - 6)..now.day})

\* the time chart of a real-news record dated today and one dated 10 days ago
C8_Witness ==
    /\ dashboardState.charts.time # NoChart
    /\ Len(dashboardState.predictions) = 2
    /\ dashboardState.predictions[1].result = REAL
    /\ dashboardState.predictions[1].timestamp.day = now.day
    /\ dashboardState.predictions[2].timestamp.day = now.day - 10
    /\ dashboardState.charts.time.datasets.real = <<0, 0, 0, 0, 0, 0, 1>>
    /\ sumOf(dashboardState.charts.time.datasets.fake) = 0
    /\ sumOf(dashboardState.charts.time.datasets.suspicious) = 0

\* C9: the step that runs loadStatistics leaves statistics.total equal to the
\* length of dashboardState.predictions and, when every record's result is one
\* of the three categories, fake + real + suspicious equal to total.
C9_StatisticsAddUp ==
    [][(\E c \in 1..MaxCycles : cycles[c].pc # "stats" /\ cycles'[c].pc = "stats")
          => LET st == dashboardState'.statistics
                 preds == dashboardState'.predictions
             IN  /\ st.total = Len(preds)
                 /\ (\A i \in DOMAIN preds : preds[i].result \in {FAKE, REAL, SUSPICIOUS})
                        => st.fake + st.real + st.suspicious = st.total]_vars

\* loadStatistics has just counted one fake and one real record
C9_Witness ==
    /\ \E c \in 1..MaxCycles : cycles[c].pc = "stats"
    /\ Len(dashboardState.predictions) = 2
    /\ dashboardState.statistics = [total |-> 2, fake |-> 1, real |-> 1, suspicious |-> 0]

\* the positions of a refresh cycle, in the order of its code
cycleRank ==
    [none |-> 0, fetch |-> 1, json |-> 2, loaded |-> 3, stats |-> 4, done |-> 5,
     failed |-> 5]

\* C10: within one refresh cycle (initial load, manual refresh or timer tick)
\* statistics are recomputed only once that cycle's history fetch has resolved
\* and its predictions are stored, and the charts and KPIs are updated only
\* once that cycle has recomputed the statistics.
C10_OrderWithinCycle ==
    /\ [][\A c \in 1..MaxCycles :
             cycles'[c].pc # cycles[c].pc =>
                 \/ cycleRank[cycles'[c].pc] = cycleRank[cycles[c].pc] + 1
                 \/ cycles'[c].pc = "failed" /\ cycles[c].pc \in {"fetch", "json"}]_vars
    /\ [][dashboardState'.statistics # dashboardState.statistics =>
             \E c \in 1..MaxCycles : cycles[c].pc = "loaded" /\ cycles'[c].pc = "stats"]_vars
    /\ [][(dashboardState'.charts # dashboardState.charts \/ kpis' # kpis) =>
             \E c \in 1..MaxCycles : cycles[c].pc = "stats" /\ cycles'[c].pc = "done"]_vars

\* a timer tick or manual refresh has run to its end and updated charts and KPIs
C10_Witness ==
    /\ cycles[2].pc = "done"
    /\ cycles[1].pc = "done"
    /\ dashboardState.charts.distribution # NoChart
    /\ dashboardState.charts.distribution.data = <<1, 1, 0>>
    /\ kpis.totalPredictions = 2

(***************************************************************************)
(* Dashboard refresh cycles: failures and overlap                          *)
(***************************************************************************)
\* this step is cycle c's history fetch failing (the GET or response.json())
fetchFailed(c) == cycles[c].pc \in {"fetch", "json"} /\ cycles'[c].pc = "failed"

\* C11: whenever the history fetch of a refresh cycle fails (initial load,
\* manual refresh or timer tick), one error toast is shown and
\* dashboardState.predictions, the statistics and the data of the three
\* charts are left as they were.
C11_FailedFetchShowsToast ==
    [][\A c \in 1..MaxCycles :
          fetchFailed(c) =>
              /\ Len(dashNotifications') = Len(dashNotifications) + 1
              /\ dashNotifications'[Len(dashNotifications')].type = "error"
              /\ dashboardState' = dashboardState]_vars

\* this step is a fetch of the main page rejecting: the POST of a submission,
\* the history GET that follows a successful analysis, or the history GET of
\* initializeApp
mainFetchRejected ==
    \/ submitPc = "fetchPredict" /\ submitPc' = "idle"
    \/ submitPc = "fetchHistory" /\ submitPc' = "idle"
    \/ initHistoryPc = "fetch" /\ initHistoryPc' = "done"

\* C12: every fetch that rejects with a network failure is caught and shown
\* to the user exactly once as an error toast, and the failed request is not
\* issued again.
C12_RejectedFetchSurfacedOnce ==
    [][mainFetchRejected =>
          /\ Len(mainNotifications') = Len(mainNotifications) + 1
          /\ mainNotifications'[Len(mainNotifications')].type = "error"
          /\ predictCalls' = predictCalls
          /\ historyCalls' = historyCalls]_vars

\* C13: refresh cycles overlap and the last write wins: whenever the response
\* of a cycle arrives, its history is stored in dashboardState.predictions,
\* also when a cycle issued later has already stored and rendered a newer one.
C13_LastWriteWins ==
    [][\A c \in 1..MaxCycles :
          (cycles[c].pc = "json" /\ cycles'[c].pc = "loaded") =>
              dashboardState'.predictions =
                  IF cycles[c].body.history = Undefined THEN <<>>
                  ELSE cycles[c].body.history.array]_vars

\* the manual refresh issued second has rendered a history of two records,
\* and the response of the initial load, issued first and holding one record,
\* has then been stored over it
C13_Witness ==
    /\ cycles[1].kind = "init" /\ cycles[1].pc = "loaded"
    /\ cycles[2].kind = "manual" /\ cycles[2].pc = "done"
    /\ kpis.totalPredictions = 2
    /\ Len(serverHistory) = 2
    /\ dashboardState.predictions = Tail(serverHistory)

\* this step is the end of cycle c, whose history fetch succeeded
cycleFinished(c) == cycles[c].pc = "stats" /\ cycles'[c].pc = "done"

\* C14: when a refresh cycle whose history fetch succeeded finishes (initial
\* load, manual refresh or timer tick), each of the three charts holds the
\* aggregate recomputed from the history in dashboardState, whatever happened
\* in earlier cycles, a failed initial load included.
C14_ChartsReplaced ==
    [][\A c \in 1..MaxCycles :
          cycleFinished(c) =>
              dashboardState'.charts =
                  [time |-> getTimeChartData(dashboardState'.predictions, now),
                   distribution |-> getDistributionData(dashboardState'.statistics),
                   confidence |-> getConfidenceData(dashboardState'.predictions)]]_vars

(***************************************************************************)
(* The submit control                                                      *)
(***************************************************************************)
\* C15: in every reachable state in which a submission is in flight
\* (appState.isAnalyzing is true) the submit control is disabled, under any
\* interleaving of input events and clearForm with the pending request.
C15_SubmitDisabledInFlight == appState.isAnalyzing => submitBtn.disabled

(***************************************************************************)
(* Notifications: properties                                               *)
(***************************************************************************)
\* notification i was created and is in document.body
inPage(i) == i \in DOMAIN notifications /\ notifications[i].inBody

\* C16: every notification created by showNotification is eventually removed
\* from the page, by a click or by its own timers; a notification that left
\* the page stays out of it whatever fires later, and a step in which one
\* notification is clicked or one of its timers fires changes no other
\* notification.
C16_NotificationsRemoved ==
    /\ \A i \in 1..MaxNotifications : inPage(i) ~> ~inPage(i)
    /\ [][\A i \in DOMAIN notifications :
             /\ ~notifications[i].inBody => ~notifications'[i].inBody
             /\ notifications'[i] # notifications[i] =>
                    \A j \in DOMAIN notifications \ {i} :
                        notifications'[j] = notifications[j]]_vars

\* the first notification was clicked after its 5000 ms timer fired, its
\* 300 ms timer is still to fire, and the second notification is in the page
C16_Witness ==
    /\ Len(notifications) >= 2
    /\ ~notifications[1].inBody
    /\ notifications[1].timer = "remove"
    /\ notifications[2].inBody

(***************************************************************************)
(* Counter animation: properties                                           *)
(***************************************************************************)
\* the animation is over: no frame is requested and the target is shown
animationEnded == counter.scheduled = 0 /\ counter.textContent = counter.target

\* C17: for every counter element with a non-negative integer data-target the
\* animation starts at most once, schedules only finitely many frames, never
\* displays a value greater than the target, and ends with the displayed
\* value equal to the target.
C17_CounterAnimation ==
    /\ [](counter.started <= 1)
    /\ [](counter.textContent <= counter.target)
    /\ (counter.started >= 1) ~> animationEnded

\* C17 as amended: with a data-duration that is missing, not a number, zero or
\* positive, the animation is started only by the one call of the observer's
\* callback that unobserves the element (once for each intersecting entry of
\* that call), schedules only finitely many frames, never displays a value
\* greater than the target, and ends with the displayed value equal to the
\* target, which then stays.
C17_CounterAnimationAmended ==
    /\ [][counter'.started # counter.started =>
             counter.observed /\ ~counter'.observed]_vars
    /\ [](counter.duration > 0 =>
             /\ counter.textContent <= counter.target
             /\ counter.frames * FrameMs < counter.duration + FrameMs * (counter.started + 1))
    /\ (counter.duration > 0 /\ counter.started >= 1) ~> animationEnded
    /\ [][(counter.duration > 0 /\ counter.started >= 1 /\ animationEnded) =>
             counter' = counter]_vars

\* an animation towards 3 over the default duration has run its 125 frames
\* and shows the target
C17_Witness ==
    /\ counter.target = 3
    /\ counter.duration = DefaultDuration
    /\ counter.started = 1
    /\ counter.frames = 125
    /\ animationEnded

====
